---- MODULE Spec2Model ----
(***************************************************************************)
(* django-lexorank: RankedModel (placement, inline and scheduled           *)
(* rebalancing), ScheduledRebalancing and the base_rebalance command.      *)
(*                                                                         *)
(* The database is the shared state; every thread runs one call at a time. *)
(* Rank strings are sequences of alphabet ordinals 0..Base-1; the empty    *)
(* sequence stands for None (no rank / no row).                            *)
(***************************************************************************)
EXTENDS Naturals, Integers, Sequences, FiniteSets, TLC

\* ------------------------------------------------------------------ bounds
MaxRows == 2
MaxTime == 1
MaxPkLen == 2

Threads == {1, 2}

\* ------------------------------------------------ LexoRank (lexorank.py)
\* lexorank.py is not among the source files: these follow spec section 4.1.
Base == 4
MaxRankLength == 3
RebalancingLength == 2

NoRank == <<>>
RebalancingRequired == <<-1>>

\* The store's string comparison of the rank column (rank__lt, rank__gt,
\* order_by("rank")): lexicographic, a strict prefix sorting first.
RECURSIVE Less(_, _)
Less(a, b) ==
    IF b = <<>> THEN FALSE
    ELSE IF a = <<>> THEN TRUE
    ELSE IF Head(a) # Head(b) THEN Head(a) < Head(b)
    ELSE Less(Tail(a), Tail(b))

Rest(s) == IF s = <<>> THEN <<>> ELSE Tail(s)

\* Walk the two strings position by position; a missing character of prev is
\* the minimum symbol, past the end of next is the maximum symbol; the first
\* position with room (difference >= 2) takes the midpoint character.
RECURSIVE MidWalk(_, _)
MidWalk(prev, next) ==
    LET p == IF prev = <<>> THEN 0 ELSE Head(prev)
        n == IF next = <<>> THEN Base - 1 ELSE Head(next)
    IN  IF n - p >= 2
        THEN <<p + ((n - p) \div 2)>>
        ELSE <<p>> \o MidWalk(Rest(prev), Rest(next))

\* LexoRank.get_lexorank_in_between: the key, or RebalancingRequired when the
\* synthesized key would be longer than MaxRankLength.
get_lexorank_in_between(previous_rank, next_rank, objects_count) ==
    LET r == MidWalk(previous_rank, next_rank)
    IN  IF Len(r) > MaxRankLength THEN RebalancingRequired ELSE r

RECURSIVE Pow(_, _)
Pow(b, e) == IF e = 0 THEN 1 ELSE b * Pow(b, e - 1)

\* The least width whose keyspace holds objects_count steps above the minimum.
RECURSIVE RankWidth(_, _)
RankWidth(objects_count, w) ==
    IF Pow(Base, w) > objects_count THEN w ELSE RankWidth(objects_count, w + 1)

RECURSIVE ToDigits(_, _)
ToDigits(v, w) ==
    IF w = 0 THEN <<>> ELSE ToDigits(v \div Base, w - 1) \o <<v % Base>>

RECURSIVE FromDigits(_)
FromDigits(s) ==
    IF s = <<>> THEN 0 ELSE FromDigits(SubSeq(s, 1, Len(s) - 1)) * Base + s[Len(s)]

\* LexoRank.get_min_rank: the starting key of a redistribution.
get_min_rank(objects_count) == ToDigits(0, RankWidth(objects_count, 1))

\* The stride of a redistribution: objects_count steps fit in the keyspace.
RankStep(rank, objects_count) ==
    (Pow(Base, Len(rank)) - 1) \div objects_count

\* LexoRank.increment_rank: the key one stride after rank.
increment_rank(rank, objects_count) ==
    ToDigits(FromDigits(rank) + RankStep(rank, objects_count), Len(rank))

\* ------------------------------------------------------------ the records
Items == 1..6
None == 0

\* _meta.model_name of each record's class. "tag" is a RankedModel that keeps
\* the default order_with_respect_to (one global list); it has no rows here.
Types == {"task", "card", "note"}
ItemType(i) == IF i = 5 THEN "card" ELSE IF i = 6 THEN "note" ELSE "task"

\* RankedModel.order_with_respect_to of each concrete model, and SEPARATOR.
\* Unset stands for the class attribute's default, None (no list of fields).
Unset == <<"None">>
order_with_respect_to(cls) ==
    IF cls = "tag" THEN Unset
    ELSE IF cls = "note" THEN <<"board", "column">>
    ELSE <<"project">>
SEPARATOR == ":"

\* _with_respect_to_value: str(pk) of each grouping field's object; a string
\* is a sequence of characters.
with_respect_to_value(i) ==
    IF i = 6 THEN << <<"1">>, <<"1">> >>
    ELSE IF i = 4 THEN << <<"2">> >>
    ELSE << <<"1">> >>

\* SEPARATOR.join(values)
RECURSIVE Join(_)
Join(values) ==
    IF values = <<>> THEN <<>>
    ELSE IF Len(values) = 1 THEN values[1]
    ELSE values[1] \o <<SEPARATOR>> \o Join(Tail(values))

with_respect_to_value_key(i) == Join(with_respect_to_value(i))

\* key.split(SEPARATOR)
RECURSIVE Split(_)
Split(key) ==
    IF key = <<>> THEN << <<>> >>
    ELSE IF Head(key) = SEPARATOR THEN << <<>> >> \o Split(Tail(key))
    ELSE LET r == Split(Tail(key)) IN << <<Head(key)>> \o r[1] >> \o Tail(r)

\* What reverse_with_respect_to_value_key raises: TypeError when
\* order_with_respect_to is None (the for loop iterates over None), IndexError
\* when the key holds fewer values than order_with_respect_to has fields.
reverse_raises(cls, key) ==
    IF order_with_respect_to(cls) = Unset THEN "TypeError"
    ELSE IF Len(Split(key)) < Len(order_with_respect_to(cls)) THEN "IndexError"
    ELSE "none"

\* The filter kwargs, as the values in the order of order_with_respect_to.
reverse_with_respect_to_value_key(cls, key) ==
    SubSeq(Split(key), 1, Len(order_with_respect_to(cls)))

VARIABLES
    rank,       \* the rank column: rank[i] = NoRank when i has no row
    sched,      \* the ScheduledRebalancing table
    now,        \* timezone.now()
    pc,         \* each thread's position
    call,       \* each thread's current (or last finished) call
    overlap,    \* history: two schedule_rebalancing calls ran concurrently
    keyed       \* a partition key on its way through the serialization

vars == <<rank, sched, now, pc, call, overlap, keyed>>

\* cls.objects.filter(**filter_kwargs): the rows of cls in that partition.
Filter(cls, kwargs) ==
    {i \in Items : /\ ItemType(i) = cls
                   /\ rank[i] # NoRank
                   /\ with_respect_to_value(i) = kwargs}

\* The rows of the list item i belongs to.
Partition(i) == Filter(ItemType(i), with_respect_to_value(i))

NoCall ==
    [op |-> "none", item |-> None, a |-> None, b |-> None, cls |-> "none",
     todo |-> {}, done |-> {}, result |-> "none"]

\* A call ends (returns or raises): the thread keeps its record.
Finish(t, rec) ==
    /\ pc' = [pc EXCEPT ![t] = "ready"]
    /\ call' = [call EXCEPT ![t] = rec]

\* No key is being serialized.
NoKey == [cls |-> "none", values |-> <<>>, key |-> <<>>, at |-> "idle",
          kwargs |-> <<>>, result |-> "none"]

\* ------------------------------------------------------------------- Init
\* The lists the records start in: items 1..3 share one list of "task".
InitLists ==
    { << <<2>>, NoRank, NoRank >>,
      << NoRank, NoRank, NoRank >>,
      << <<1>>, <<3>>, <<2>> >>,
      << <<1>>, <<1>>, <<2>> >>,
      << <<1, 1, 1>>, <<1, 1, 2>>, NoRank >>,
      << <<1>>, <<1, 2>>, NoRank >> }

Init ==
    /\ \E l \in InitLists :
         rank = [i \in Items |->
                   IF i <= 3 THEN l[i]
                   ELSE IF i = 4 THEN <<1, 2>>
                   ELSE IF i = 5 THEN <<2, 2>>
                   ELSE <<2>>]
    /\ sched = {}
    /\ now = 0
    /\ pc = [t \in Threads |-> "ready"]
    /\ call = [t \in Threads |-> NoCall]
    /\ overlap = FALSE
    /\ keyed = NoKey

\* ------------------------------------------------------------- placement
\* RankedModel._model is a plain method (no @property), so every
\* self._model.objects raises AttributeError: 'function' object has no
\* attribute 'objects'.
model_objects == "AttributeError"

\* get_first_object / get_last_object are called without their required
\* with_respect_to_kwargs argument.
get_first_object == "TypeError"
get_last_object == "TypeError"

\* get_next_object / get_previous_object: self._model.objects.filter(...)
get_next_object == model_objects
get_previous_object == model_objects

\* _objects_count: self._model.objects.filter(...).count()
objects_count == model_objects

\* rebalancing_required: self._model.objects.filter(rank__length__gte=...)
rebalancing_required == model_objects

PlaceCall(op, item, a, b, result) ==
    [NoCall EXCEPT !.op = op, !.item = item, !.a = a, !.b = b, !.result = result]

\* place_on_top: get_first_object() raises before anything is read.
place_on_top(t, item) ==
    /\ pc[t] = "ready"
    /\ Finish(t, PlaceCall("place_on_top", item, None, None, get_first_object))
    /\ UNCHANGED <<rank, sched, now, overlap, keyed>>

\* place_on_bottom: get_last_object() raises before anything is read.
place_on_bottom(t, item) ==
    /\ pc[t] = "ready"
    /\ Finish(t, PlaceCall("place_on_bottom", item, None, None, get_last_object))
    /\ UNCHANGED <<rank, sched, now, overlap, keyed>>

\* place_after: after_obj.get_next_object() raises.
place_after(t, item, after_obj) ==
    /\ pc[t] = "ready"
    /\ Finish(t, PlaceCall("place_after", item, after_obj, None, get_next_object))
    /\ UNCHANGED <<rank, sched, now, overlap, keyed>>

\* place_before: before_obj.get_previous_object() raises.
place_before(t, item, before_obj) ==
    /\ pc[t] = "ready"
    /\ Finish(t, PlaceCall("place_before", item, None, before_obj,
                           get_previous_object))
    /\ UNCHANGED <<rank, sched, now, overlap, keyed>>

\* place_between: _wrapper_get_lexorank_in_between evaluates
\* self._objects_count as an argument of the synthesis; that raises inside the
\* try, and "except Exception as e: raise e" passes it on.
place_between(t, item, before_obj, after_obj) ==
    /\ pc[t] = "ready"
    /\ Finish(t, PlaceCall("place_between", item, before_obj, after_obj,
                           objects_count))
    /\ UNCHANGED <<rank, sched, now, overlap, keyed>>

\* save: super().save() writes the row, rebalancing_required() raises, and
\* transaction.atomic rolls the write back.
save(t, item) ==
    /\ pc[t] = "ready"
    /\ Finish(t, PlaceCall("save", item, None, None, rebalancing_required))
    /\ UNCHANGED <<rank, sched, now, overlap, keyed>>

\* rebalance (inline): self._model.objects raises on entering the atomic
\* block; nothing is read, locked or written.
rebalance(t, item) ==
    /\ pc[t] = "ready"
    /\ Finish(t, PlaceCall("rebalance", item, None, None, model_objects))
    /\ UNCHANGED <<rank, sched, now, overlap, keyed>>

\* ------------------------------------------------- schedule_rebalancing
\* A plain insert: the lookup that finds no row, whatever the table holds.
RequestsNeverFound(model, key) == {}

\* The rows update_or_create(model=..., with_respect_to=...) looks up.
Requests(model, key) ==
    {r \in sched : r.model = model /\ r.with_respect_to = key}

\* The row update_or_create inserts: scheduled_at is auto_now_add.
NewRequest(model, key) ==
    [id |-> Cardinality(sched) + 1, model |-> model, with_respect_to |-> key,
     scheduled_at |-> now]

\* update_or_create, first half: get(). One row: it is saved with no field
\* changed (no defaults; auto_now_add is set on insert only). Several rows:
\* MultipleObjectsReturned. No row: the insert follows in a second statement.
schedule_rebalancing(t, item) ==
    LET found == Requests(ItemType(item), with_respect_to_value_key(item))
        rec == [NoCall EXCEPT !.op = "schedule_rebalancing", !.item = item]
    IN  /\ pc[t] = "ready"
        /\ found = {} =>
             Cardinality(sched) + Cardinality({u \in Threads : pc[u] = "create"})
                < MaxRows
        /\ pc' = [pc EXCEPT ![t] = IF found = {} THEN "create" ELSE "ready"]
        /\ call' = [call EXCEPT ![t] =
                      [rec EXCEPT !.result =
                         IF found = {} THEN "none"
                         ELSE IF Cardinality(found) = 1 THEN "ok"
                         ELSE "MultipleObjectsReturned"]]
        /\ overlap' = (overlap \/ \E u \in Threads \ {t} : pc[u] = "create")
        /\ UNCHANGED <<rank, sched, now, keyed>>

\* update_or_create, second half: create(). The table has no unique
\* constraint, so the insert succeeds whatever rows exist by now.
schedule_create(t) ==
    /\ pc[t] = "create"
    /\ sched' = sched \cup
         {NewRequest(ItemType(call[t].item), with_respect_to_value_key(call[t].item))}
    /\ Finish(t, [call[t] EXCEPT !.result = "ok"])
    /\ UNCHANGED <<rank, now, overlap, keyed>>

\* ---------------------------------------------------- scheduled rebalance
\* qs.order_by("rank"): every order of the rows that is ascending in rank
\* (rows of equal rank come in either order).
Orderings(objs) ==
    {s \in [1..Cardinality(objs) -> objs] :
        /\ \A i, j \in 1..Cardinality(objs) : i # j => s[i] # s[j]
        /\ \A i, j \in 1..Cardinality(objs) :
             i < j => ~Less(rank[s[j]], rank[s[i]])}

\* A loop that does not carry the rank from one row to the next.
AssignedRankNotCarried(k, count) ==
    increment_rank(get_min_rank(count), count)

\* The rank of the k-th row of the loop: the rank is incremented, then
\* assigned, so the first row gets one stride above get_min_rank.
RECURSIVE AssignedRank(_, _)
AssignedRank(k, count) ==
    IF k = 0 THEN get_min_rank(count)
    ELSE increment_rank(AssignedRank(k - 1, count), count)

\* A redistribution whose queryset is not filtered by the decoded key.
rebalance_by_scheduled_unfiltered(cls, key) ==
    LET objs == {i \in Items : ItemType(i) = cls /\ rank[i] # NoRank}
        object_count == Cardinality(objs)
    IN  {[i \in Items |->
            IF i \in objs
            THEN AssignedRank(CHOOSE k \in 1..object_count : s[k] = i, object_count)
            ELSE rank[i]] : s \in Orderings(objs)}

\* rebalance_by_scheduled(cls, key): the rank column after bulk_update, one
\* outcome per order the locked queryset may come in.
rebalance_by_scheduled(cls, key) ==
    LET objs == Filter(cls, reverse_with_respect_to_value_key(cls, key))
        object_count == Cardinality(objs)
    IN  {[i \in Items |->
            IF i \in objs
            THEN AssignedRank(CHOOSE k \in 1..object_count : s[k] = i, object_count)
            ELSE rank[i]] : s \in Orderings(objs)}

\* Command.resolve, up to the queryset's evaluation: the rows with
\* scheduled_at <= now; none: return.
resolve(t, cls) ==
    LET scheduled == {r \in sched : r.scheduled_at <= now}
        rec == [NoCall EXCEPT !.op = "resolve", !.cls = cls, !.todo = scheduled]
    IN  /\ pc[t] = "ready"
        /\ pc' = [pc EXCEPT ![t] = IF scheduled = {} THEN "ready" ELSE "loop"]
        /\ call' = [call EXCEPT ![t] =
                      [rec EXCEPT !.result = IF scheduled = {} THEN "ok" ELSE "none"]]
        /\ UNCHANGED <<rank, sched, now, overlap, keyed>>

\* A loop that queries the table again in every iteration.
resolve_step_requeried(t, r) ==
    /\ pc[t] = "loop"
    /\ r \in call[t].todo
    /\ IF reverse_raises(call[t].cls, r.with_respect_to) # "none"
       THEN /\ Finish(t, [call[t] EXCEPT
                            !.result = reverse_raises(call[t].cls, r.with_respect_to)])
            /\ UNCHANGED rank
       ELSE /\ rank' \in rebalance_by_scheduled(call[t].cls, r.with_respect_to)
            /\ LET todo == {x \in sched : x.scheduled_at <= now}
                              \ (call[t].done \cup {r})
               IN  /\ pc' = [pc EXCEPT ![t] = IF todo = {} THEN "ready" ELSE "loop"]
                   /\ call' = [call EXCEPT ![t] =
                                 [call[t] EXCEPT !.todo = todo,
                                    !.done = call[t].done \cup {r},
                                    !.result = IF todo = {} THEN "ok" ELSE "none"]]
    /\ UNCHANGED <<sched, now, overlap, keyed>>

\* One iteration of the for loop: self.model.rebalance_by_scheduled(
\* item.with_respect_to). The row is not deleted. An exception leaves the
\* loop and the command (nothing catches it). done is history: the rows whose
\* iteration has redistributed.
resolve_step(t, r) ==
    /\ pc[t] = "loop"
    /\ r \in call[t].todo
    /\ IF reverse_raises(call[t].cls, r.with_respect_to) # "none"
       THEN /\ Finish(t, [call[t] EXCEPT
                            !.result = reverse_raises(call[t].cls, r.with_respect_to)])
            /\ UNCHANGED rank
       ELSE /\ rank' \in rebalance_by_scheduled(call[t].cls, r.with_respect_to)
            /\ LET todo == call[t].todo \ {r}
               IN  /\ pc' = [pc EXCEPT ![t] = IF todo = {} THEN "ready" ELSE "loop"]
                   /\ call' = [call EXCEPT ![t] =
                                 [call[t] EXCEPT !.todo = todo,
                                    !.done = call[t].done \cup {r},
                                    !.result = IF todo = {} THEN "ok" ELSE "none"]]
    /\ UNCHANGED <<sched, now, overlap, keyed>>

\* Time passes.
Tick ==
    /\ now < MaxTime
    /\ now' = now + 1
    /\ UNCHANGED <<rank, sched, pc, call, overlap, keyed>>

\* ------------------------------------------------------------------- Next
\* The records placement calls move, and the neighbours they name.
\* Thread t moves record t + 1; the requests are made through one record of
\* each list of "task" and of "note".
Movable(t) == {t + 1}
Neighbours(item) == {1, 2, 3} \ {item}
Schedulers == {1, 4, 6}
\* The models whose rebalance command worker t runs.
Commands(t) == IF t = 1 THEN {"task", "card"} ELSE {"task", "note"}
\* The (before_obj, after_obj) pairs place_between is called with.
Boundaries(item) ==
    {<<1, 5 - item>>, <<None, 1>>, <<5 - item, None>>, <<None, None>>}

Next ==
    \/ \E t \in Threads : \E item \in Movable(t) : place_on_top(t, item)
    \/ \E t \in Threads : \E item \in Movable(t) : place_on_bottom(t, item)
    \/ \E t \in Threads : \E item \in Movable(t) :
         \E a \in Neighbours(item) : place_after(t, item, a)
    \/ \E t \in Threads : \E item \in Movable(t) :
         \E b \in Neighbours(item) : place_before(t, item, b)
    \/ \E t \in Threads : \E item \in Movable(t) :
         \E ab \in Boundaries(item) : place_between(t, item, ab[1], ab[2])
    \/ \E t \in Threads : \E item \in Movable(t) : save(t, item)
    \/ \E t \in Threads : \E item \in Movable(t) : rebalance(t, item)
    \/ \E t \in Threads, item \in Schedulers : schedule_rebalancing(t, item)
    \/ \E t \in Threads : schedule_create(t)
    \/ \E t \in Threads : \E cls \in Commands(t) : resolve(t, cls)
    \/ \E t \in Threads, r \in sched : resolve_step(t, r)

\* The program with the clock standing still: every row is due at any time
\* (scheduled_at is the time of the insert), so time changes no step of it.
Spec == Init /\ [][Next]_vars

\* The program with time passing.
NextTimed == Next \/ Tick
SpecTimed == Init /\ [][NextTimed]_vars

\* The scheduling calls alone, with time passing.
NextSchedule ==
    \/ \E t \in Threads, item \in Schedulers : schedule_rebalancing(t, item)
    \/ \E t \in Threads : schedule_create(t)
    \/ Tick
SpecSchedule == Init /\ [][NextSchedule]_vars

\* ------------------------------------------- the partition key on its own
\* The serialization of a partition key, for every class and every tuple of
\* str(pk) values: the strings are over the characters of KeyChars, up to
\* MaxPkLen long. "tag" keeps order_with_respect_to = None: its tuple is ().
KeyChars == {"1", SEPARATOR}
KeyTypes == Types \cup {"tag"}
PkStrings == UNION {[1..n -> KeyChars] : n \in 1..MaxPkLen}
KeyValues(cls) ==
    IF order_with_respect_to(cls) = Unset THEN {<<>>}
    ELSE [1..Len(order_with_respect_to(cls)) -> PkStrings]

InitKey ==
    /\ rank = [i \in Items |-> NoRank]
    /\ sched = {}
    /\ now = 0
    /\ pc = [t \in Threads |-> "ready"]
    /\ call = [t \in Threads |-> NoCall]
    /\ overlap = FALSE
    /\ \E cls \in KeyTypes : \E values \in KeyValues(cls) :
          keyed = [NoKey EXCEPT !.cls = cls, !.values = values, !.at = "new"]

\* schedule_rebalancing stores with_respect_to = _with_respect_to_value_key.
KeyStored ==
    /\ keyed.at = "new"
    /\ keyed' = [keyed EXCEPT !.key = Join(keyed.values), !.at = "stored"]
    /\ UNCHANGED <<rank, sched, now, pc, call, overlap>>

\* rebalance_by_scheduled turns the stored key into filter kwargs.
KeyReversed ==
    /\ keyed.at = "stored"
    /\ keyed' = [keyed EXCEPT
                   !.at = "reversed",
                   !.result = IF reverse_raises(keyed.cls, keyed.key) = "none"
                              THEN "ok" ELSE reverse_raises(keyed.cls, keyed.key),
                   !.kwargs = IF reverse_raises(keyed.cls, keyed.key) = "none"
                              THEN reverse_with_respect_to_value_key(keyed.cls, keyed.key)
                              ELSE <<>>]
    /\ UNCHANGED <<rank, sched, now, pc, call, overlap>>

NextKey == KeyStored \/ KeyReversed
SpecKey == InitKey /\ [][NextKey]_vars

\* ----------------------------------------------- vocabulary of the claims
RankOf(r, i) == IF i = None THEN NoRank ELSE r[i]

\* first(partition), last(partition), successor(anchor), predecessor(anchor):
\* the rows the ordered queries of the list view select (None: no such row).
MinOf(S) ==
    IF S = {} THEN None ELSE CHOOSE i \in S : \A j \in S : ~Less(rank[j], rank[i])
MaxOf(S) ==
    IF S = {} THEN None ELSE CHOOSE i \in S : \A j \in S : ~Less(rank[i], rank[j])
FirstObj(item) == MinOf(Partition(item))
LastObj(item) == MaxOf(Partition(item))
NextObj(a) == MinOf({j \in Partition(a) : Less(rank[a], rank[j])})
PrevObj(b) == MaxOf({j \in Partition(b) : Less(rank[j], rank[b])})

\* midpoint(before?.key, after?.key) over the rank column r.
Synth(r, item, before, after) ==
    get_lexorank_in_between(RankOf(r, before), RankOf(r, after),
                            Cardinality(Partition(item)))

\* The rank columns a redistribution of item's list may leave.
Redistributed(item) ==
    rebalance_by_scheduled(ItemType(item), with_respect_to_value_key(item))

\* The rows of the request table for one (entity type, partition key) pair.
RowsFor(model, key) == {r \in sched : r.model = model /\ r.with_respect_to = key}
Pairs == {<<ItemType(i), with_respect_to_value_key(i)>> : i \in Items}

\* r orders item immediately after a / immediately before b / first / last.
SortsAfter(r, item, a) ==
    /\ Less(r[a], r[item])
    /\ \A j \in Neighbours(item) :
         (r[j] # NoRank /\ Less(r[a], r[j])) => Less(r[item], r[j])
SortsBefore(r, item, b) ==
    /\ Less(r[item], r[b])
    /\ \A j \in Neighbours(item) :
         (r[j] # NoRank /\ Less(r[j], r[b])) => Less(r[j], r[item])
SortsFirst(r, item) ==
    /\ r[item] # NoRank
    /\ \A j \in Neighbours(item) : r[j] # NoRank => Less(r[item], r[j])
SortsLast(r, item) ==
    /\ r[item] # NoRank
    /\ \A j \in Neighbours(item) : r[j] # NoRank => Less(r[j], r[item])

\* ------------------------------------------------------------------- C1
\* C1 (stated as the claim has it; the code violates it): a placement whose
\* first key synthesis overflows and whose synthesis retried after the
\* redistribution of the list succeeds, completes and leaves the moved item
\* with the retried key.
C1_Retried(t, item, before, after) ==
    LET redo == {Synth(nr, item, before, after) : nr \in Redistributed(item)}
                   \ {RebalancingRequired}
    IN  (Synth(rank, item, before, after) = RebalancingRequired /\ redo # {})
           => (call'[t].result = "ok" /\ rank'[item] \in redo)

C1_PlacementCompletesAfterRetry ==
    [][\A t \in Threads : \A item \in Movable(t) :
         /\ place_on_top(t, item) => C1_Retried(t, item, None, FirstObj(item))
         /\ place_on_bottom(t, item) => C1_Retried(t, item, LastObj(item), None)
         /\ \A a \in Neighbours(item) :
              (place_after(t, item, a) /\ rank[a] # NoRank)
                 => C1_Retried(t, item, a, NextObj(a))
         /\ \A b \in Neighbours(item) :
              (place_before(t, item, b) /\ rank[b] # NoRank)
                 => C1_Retried(t, item, PrevObj(b), b)
         /\ \A ab \in Boundaries(item) :
              (place_between(t, item, ab[1], ab[2])
                 /\ RankOf(rank, ab[1]) # NoRank /\ RankOf(rank, ab[2]) # NoRank)
                 => C1_Retried(t, item, ab[1], ab[2])]_vars

\* ------------------------------------------------------------------- C2
\* C2 (stated as the claim has it; the code violates it): two place_after
\* calls of two threads, for two different items against the same anchor,
\* both commit, each key lies after the anchor's, and the two keys differ.
C2_ConcurrentPlaceAfterBothCommit ==
    \A t, u \in Threads :
       (/\ t # u
        /\ pc[t] = "ready" /\ pc[u] = "ready"
        /\ call[t].op = "place_after" /\ call[u].op = "place_after"
        /\ call[t].a = call[u].a /\ call[t].item # call[u].item
        /\ rank[call[t].a] # NoRank)
       => /\ call[t].result = "ok" /\ call[u].result = "ok"
          /\ Less(rank[call[t].a], rank[call[t].item])
          /\ Less(rank[call[u].a], rank[call[u].item])
          /\ rank[call[t].item] # rank[call[u].item]

\* ------------------------------------------------------------------- C3
\* C3 (stated as the claim has it; the code violates it): when a pass of
\* resolve completes without error, the request its last iteration
\* redistributed (one of those due when the pass started) has been deleted.
C3_PassConsumesRequests ==
    [][\A t \in Threads : \A r \in sched :
         (resolve_step(t, r) /\ pc'[t] = "ready" /\ call'[t].result = "ok")
            => r \notin sched']_vars

\* ------------------------------------------------------------------- C4
\* C4: as long as no two schedule_rebalancing calls have overlapped, every
\* call that ends has succeeded and leaves exactly one request for its
\* (entity type, partition key) pair; and no step of a call changes the
\* requests of any other pair.
C4_step(t, item) ==
    /\ call'[t].op = "schedule_rebalancing"
    /\ call'[t].item = item
    /\ \/ schedule_rebalancing(t, item)
       \/ schedule_create(t) /\ call[t].item = item

C4_SequentialScheduleLeavesOneRequest ==
    [][\A t \in Threads, item \in Schedulers :
         C4_step(t, item) =>
            /\ \A p \in Pairs \ {<<ItemType(item), with_respect_to_value_key(item)>>} :
                  RowsFor(p[1], p[2])' = RowsFor(p[1], p[2])
            /\ (~overlap' /\ pc'[t] = "ready") =>
                  /\ call'[t].result = "ok"
                  /\ Cardinality(RowsFor(ItemType(item),
                                         with_respect_to_value_key(item))') = 1]_vars

\* Two calls for the same pair, one after the other, have ended.
C4_Witness ==
    /\ ~overlap
    /\ \A t \in Threads :
         /\ pc[t] = "ready"
         /\ call[t].op = "schedule_rebalancing"
         /\ call[t].item = 1
         /\ call[t].result = "ok"
    /\ Cardinality(RowsFor("task", with_respect_to_value_key(1))) = 1

\* ------------------------------------------------------------------- C5
\* C5 (stated as the claim has it; the code violates it): at most one request
\* per (entity type, partition key) pair, in every reachable state.
C5_AtMostOneRequestPerPair ==
    \A p \in Pairs : Cardinality(RowsFor(p[1], p[2])) <= 1

\* ------------------------------------------------------------------- C6
\* C6: a redistribution (an iteration of resolve, or an inline rebalance that
\* returns) leaves the rows of the list in their former relative order, and
\* no two of them with the same key.
C6_Ordered(objs) ==
    \A x, y \in objs :
       /\ Less(rank[x], rank[y]) => Less(rank'[x], rank'[y])
       /\ x # y => rank'[x] # rank'[y]

C7_PlaceAfterBefore ==
    [][\A t \in Threads : \A item \in Movable(t) : \A x \in Neighbours(item) :
         /\ (place_after(t, item, x) /\ rank[x] # NoRank)
               => (call'[t].result = "ok" /\ SortsAfter(rank', item, x))
         /\ (place_before(t, item, x) /\ rank[x] # NoRank)
               => (call'[t].result = "ok" /\ SortsBefore(rank', item, x))]_vars

\* ------------------------------------------------------------------- C8
\* C8 (stated as the claim has it; the code violates it): place_on_top
\* completes and leaves the item before every other row of its list,
\* place_on_bottom after every other row.
C8_PlaceOnTopBottom ==
    [][\A t \in Threads : \A item \in Movable(t) :
         /\ place_on_top(t, item)
               => (call'[t].result = "ok" /\ SortsFirst(rank', item))
         /\ place_on_bottom(t, item)
               => (call'[t].result = "ok" /\ SortsLast(rank', item))]_vars

\* ------------------------------------------------------------------- C9
\* C9 (stated as the claim has it; the code violates it): place_between
\* fails and writes nothing when a row of the list lies strictly between the
\* boundaries, and otherwise persists a key strictly between them.
C9_Occupied(item, before, after) ==
    \E j \in Partition(item) :
       /\ before # None => Less(rank[before], rank[j])
       /\ after # None => Less(rank[j], rank[after])

C9_PlaceBetween ==
    [][\A t \in Threads : \A item \in Movable(t) : \A ab \in Boundaries(item) :
         (/\ place_between(t, item, ab[1], ab[2])
          /\ ab[1] # None => rank[ab[1]] # NoRank
          /\ ab[2] # None => rank[ab[2]] # NoRank
          /\ (ab[1] # None /\ ab[2] # None) => Less(rank[ab[1]], rank[ab[2]]))
         => IF C9_Occupied(item, ab[1], ab[2])
            THEN call'[t].result # "ok" /\ rank'[item] = rank[item]
            ELSE /\ call'[t].result = "ok"
                 /\ ab[1] # None => Less(rank'[ab[1]], rank'[item])
                 /\ ab[2] # None => Less(rank'[item], rank'[ab[2]])]_vars

\* ------------------------------------------------------------------ C10
\* C10 (stated as the claim has it; the code violates it): a place_after
\* whose key synthesis does not overflow persists its key, and when it
\* returns a request for the item's pair exists if a key of the list has
\* reached the threshold, and no request was created otherwise.
C10_OverThreshold(r, item) ==
    \E j \in {item} \cup Neighbours(item) : Len(r[j]) >= RebalancingLength

C11_FailureIsolatedPerPartition ==
    [][\A t \in Threads : \A r \in sched :
         (/\ resolve_step(t, r)
          /\ reverse_raises(call[t].cls, r.with_respect_to) # "none"
          /\ call[t].todo \ {r} # {})
         => /\ pc'[t] = "loop"
            /\ call'[t].todo = call[t].todo \ {r}]_vars

\* ------------------------------------------------------------------ C12
\* C12 (stated as the claim has it; the code violates it): while a worker is
\* in a pass in which it has redistributed for a request, no other worker of
\* the same command redistributes for that request: its iteration finds the
\* request consumed and reassigns nothing.
C12_OneWorkerReassigns ==
    [][\A t, u \in Threads : \A r \in sched :
         (/\ t # u
          /\ pc[u] = "loop"
          /\ call[u].cls = call[t].cls
          /\ r \in call[u].done
          /\ resolve_step(t, r))
         => r \notin call'[t].done]_vars

\* ------------------------------------------------------------------ C14
\* C14 (stated as the claim has it; the code violates it): a redistribution
\* of a list of n rows gives the i-th row in key order (i = 0..n-1) the key
\* got by incrementing the minimum key of n exactly i times; the first row
\* gets the minimum key itself.
RECURSIVE C14_Key(_, _)
C14_Key(i, n) ==
    IF i = 0 THEN get_min_rank(n) ELSE increment_rank(C14_Key(i - 1, n), n)

C14_Assigned(objs) ==
    LET n == Cardinality(objs)
    IN  \E s \in Orderings(objs) :
           \A k \in 1..n : rank'[s[k]] = C14_Key(k - 1, n)

C14_RedistributionStartsAtMinimum ==
    [][\A t \in Threads : \A r \in sched :
         (resolve_step(t, r) /\ reverse_raises(call[t].cls, r.with_respect_to) = "none")
            => C14_Assigned(Filter(call[t].cls,
                  reverse_with_respect_to_value_key(call[t].cls, r.with_respect_to)))]_vars

\* ------------------------------------------------------------------ C15
\* C15 (stated as the claim has it; the code violates it): a place_after that
\* runs while a pass is redistributing the anchor's list completes, and its
\* item sorts immediately after the anchor in the list as committed then.
C15_Redistributing(u, a) ==
    /\ pc[u] = "loop"
    /\ call[u].cls = ItemType(a)
    /\ \E r \in call[u].todo \cup call[u].done :
          /\ reverse_raises(call[u].cls, r.with_respect_to) = "none"
          /\ reverse_with_respect_to_value_key(call[u].cls, r.with_respect_to)
                = with_respect_to_value(a)

C15_PlacementDuringRedistribution ==
    [][\A t \in Threads : \A item \in Movable(t) : \A a \in Neighbours(item) :
         (/\ place_after(t, item, a)
          /\ rank[a] # NoRank
          /\ \E u \in Threads \ {t} : C15_Redistributing(u, a))
         => (call'[t].result = "ok" /\ SortsAfter(rank', item, a))]_vars

\* ------------------------------------------------------------------ C16
\* C16: the requests a pass handles are those it read when it started: no
\* step adds a request to them, each iteration redistributes for one request
\* of them that was not handled yet, and leaves fewer to handle or ends the
\* pass. (Only a step of the pass itself changes the worker's record.)
C16_Read(t) == call[t].todo \cup call[t].done

C16_PassHandlesWhatItRead ==
    [][\A t \in Threads :
         (pc[t] = "loop" /\ call'[t] # call[t]) =>
            /\ C16_Read(t)' = C16_Read(t)
            /\ \A r \in sched :
                  resolve_step(t, r) =>
                     /\ r \in C16_Read(t) /\ r \notin call[t].done
                     /\ call'[t].done \subseteq call[t].done \cup {r}
                     /\ \/ pc'[t] = "ready"
                        \/ Cardinality(call'[t].todo) < Cardinality(call[t].todo)]_vars

\* A pass has read the table, and a request created since is in the table.
C16_Witness ==
    \E t \in Threads :
       /\ pc[t] = "loop"
       /\ call[t].todo # {}
       /\ sched \ C16_Read(t) # {}

\* ------------------------------------------------------------------ C17
\* C17 (stated as the claim has it; the code violates it): for every
\* partition key tuple, reversing its serialization succeeds and gives back
\* the tuple's values (the filter of the original list), and no other tuple
\* of the class serializes to the same string.
C17_KeyRoundTrip ==
    [][KeyReversed =>
         /\ keyed'.result = "ok"
         /\ keyed'.kwargs = keyed.values
         /\ \A other \in KeyValues(keyed.cls) \ {keyed.values} :
               Join(other) # keyed.key]_vars

\* ------------------------------------------------------------------ C18
\* C18 (stated as the claim has it; the code violates it): a
\* schedule_rebalancing call that finds the request of its pair leaves the
\* table as it was, except that this request's scheduled_at is the time of
\* the call.
C18_RepeatedScheduleRefreshesTimestamp ==
    [][\A t \in Threads, item \in Schedulers :
         LET found == RowsFor(ItemType(item), with_respect_to_value_key(item))
         IN  (schedule_rebalancing(t, item) /\ Cardinality(found) = 1)
                => sched' = (sched \ found)
                               \cup {[r EXCEPT !.scheduled_at = now] : r \in found}]_vars

\* ------------------------------------------------------------------ C19
\* C19 (stated as the claim has it; the code violates it): an iteration of a
\* pass changes no key of a record whose entity type is not the one the
\* request was recorded for.
C19_RequestOfOtherTypeIgnored ==
    [][\A t \in Threads : \A r \in sched :
         resolve_step(t, r) =>
            \A i \in Items : ItemType(i) # r.model => rank'[i] = rank[i]]_vars

\* ------------------------------------------------------------------ C20
\* C20: a redistribution changes keys only in the list it redistributes (the
\* records of the command's class with the decoded grouping values): every
\* other record keeps its key, and no row appears or disappears; a placement
\* changes no key but the moved item's. (A step that leaves the rank column
\* as it is changes no key.)
C20_List(cls, key) ==
    {i \in Items : /\ ItemType(i) = cls
                   /\ reverse_raises(cls, key) = "none"
                   /\ with_respect_to_value(i) = reverse_with_respect_to_value_key(cls, key)}

C20_Frame(list) ==
    /\ \A i \in Items \ list : rank'[i] = rank[i]
    /\ \A i \in Items : (rank'[i] = NoRank) <=> (rank[i] = NoRank)

C20_OnlyTheListChanges ==
    [][rank' # rank =>
         /\ \A t \in Threads : \A r \in sched :
              resolve_step(t, r) => C20_Frame(C20_List(call[t].cls, r.with_respect_to))
         /\ \A t \in Threads : \A item \in Movable(t) :
              /\ rebalance(t, item)
                    => C20_Frame(C20_List(ItemType(item), with_respect_to_value_key(item)))
              /\ (\/ place_on_top(t, item) \/ place_on_bottom(t, item)
                  \/ \E x \in Neighbours(item) :
                        place_after(t, item, x) \/ place_before(t, item, x)
                  \/ \E ab \in Boundaries(item) : place_between(t, item, ab[1], ab[2]))
                    => C20_Frame({item})]_vars

\* A pass has redistributed the list of tasks 1 and 2 in their place; the
\* task of the other project and the records of the other types keep their
\* keys.
C20_Witness ==
    /\ \E t \in Threads :
          call[t].op = "resolve" /\ call[t].cls = "task" /\ call[t].done # {}
    /\ rank[1] = <<1>> /\ rank[2] = <<2>> /\ rank[3] = NoRank
    /\ rank[4] = <<1, 2>> /\ rank[5] = <<2, 2>> /\ rank[6] = <<2>>

====
